---- MODULE Spec2Model ----
(***************************************************************************)
(* Model of src/binaires/memory.c: a locator that scans /proc for the      *)
(* first numeric entry whose cmdline record contains "node"                *)
(* (get_node_pid), a reader of /proc/<pid>/status (get_memory_usage) and   *)
(* the orchestration in main.                                              *)
(*                                                                         *)
(* Files are byte sequences; a byte is a one-character string, and NUL is  *)
(* the zero byte that separates the arguments in a cmdline record and      *)
(* terminates every C string.                                              *)
(***************************************************************************)
EXTENDS Integers, Sequences, FiniteSets, TLC

\* ---------------------------------------------------------------- bytes
NUL == "NUL"
Digits == {"0", "1", "2", "3", "4", "5", "6", "7", "8", "9"}
DigitVal == ("0" :> 0) @@ ("1" :> 1) @@ ("2" :> 2) @@ ("3" :> 3) @@ ("4" :> 4)
            @@ ("5" :> 5) @@ ("6" :> 6) @@ ("7" :> 7) @@ ("8" :> 8) @@ ("9" :> 9)
\* isspace(), as scanf uses it to delimit %s and to skip before %ld
Spaces == {" ", "\t", "\n", "\r"}

\* ------------------------------------------------------ program constants
NotFound == -1
CMDLINE_SIZE == 1024
LINE_SIZE == 256
KEY_SIZE == 64
Needle == <<"n", "o", "d", "e">>

\* what fopen() yields for a record that cannot be opened
Unopenable == <<"unopenable">>
\* no current directory entry / no identifier yet
NoEntry == <<"NULL">>
NoPid == "nopid"

\* ------------------------------------------------------------ C library
\* least index j >= i with (s[j] \in C) = member, else Len(s)+1
FirstFrom(s, i, C, member) ==
    CHOOSE j \in i..(Len(s) + 1) :
        /\ (j = Len(s) + 1 \/ (s[j] \in C) = member)
        /\ \A k \in i..(j - 1) : (s[k] \in C) # member

FirstIdx(s, i, stopAtSpace) ==
    IF i > Len(s) THEN Len(s) + 1 ELSE FirstFrom(s, i, Spaces, stopAtSpace)

FirstNul(buf, i) == FirstFrom(buf, i, {NUL}, TRUE)

\* the C string held in a buffer: the bytes before the first NUL
CStr(buf) == SubSeq(buf, 1, FirstNul(buf, 1) - 1)

\* index of the last byte fgets takes: through the first newline, at most last
LineEnd(bytes, i, last) ==
    LET e == FirstFrom(SubSeq(bytes, 1, last), i, {"\n"}, TRUE)
    IN IF e > last THEN last ELSE e

\* fgets(buf, size, f) with f at byte position pos (1-based): NULL at end of
\* file, else up to size-1 bytes, stopping after a newline
Fgets(bytes, pos, size) ==
    IF pos > Len(bytes)
    THEN [ok |-> FALSE, chunk |-> <<>>, next |-> pos]
    ELSE LET last == IF pos + size - 2 < Len(bytes) THEN pos + size - 2 ELSE Len(bytes)
             e == LineEnd(bytes, pos, last)
         IN [ok |-> TRUE, chunk |-> SubSeq(bytes, pos, e), next |-> e + 1]

\* strstr(hay, needle) != NULL ; hay is read as a C string
Strstr(hay, needle) ==
    LET s == CStr(hay)
    IN \E i \in 1..(Len(s) - Len(needle) + 1) :
          SubSeq(s, i, i + Len(needle) - 1) = needle

DigitsEnd(s, i) == IF i > Len(s) THEN i ELSE FirstFrom(s, i, Digits, FALSE)

RECURSIVE DecVal(_, _, _)
\* value of the decimal digits s[i..j-1]
DecVal(s, i, j) ==
    IF j <= i THEN 0 ELSE 10 * DecVal(s, i, j - 1) + DigitVal[s[j - 1]]

\* the signed decimal number starting at s[i] (after optional sign); the
\* records of this model hold numbers far below LONG_MAX
ParseLong(s, i) ==
    LET neg == i <= Len(s) /\ s[i] = "-"
        d == IF i <= Len(s) /\ s[i] \in {"-", "+"} THEN i + 1 ELSE i
        e == DigitsEnd(s, d)
    IN [ok |-> e > d,
        value |-> IF neg THEN 0 - DecVal(s, d, e) ELSE DecVal(s, d, e),
        next |-> e]

\* atoi(str)
Atoi(str) ==
    LET s == CStr(str)
    IN ParseLong(s, FirstIdx(s, 1, FALSE)).value

\* strspn(name, "0123456789") == strlen(name)
IsNumericName(name) == \A i \in 1..Len(name) : name[i] \in Digits

\* sscanf(line, "%s %ld kB", key, &value): the number of conversions done
\* (-1 = EOF before the first), the token %s copies and the number %ld
\* stores.  The literal " kB" follows the last conversion and so never
\* changes the count.
Sscanf(line) ==
    LET s == CStr(line)
        a == FirstIdx(s, 1, FALSE)
        b == FirstIdx(s, a, TRUE)
        n == ParseLong(s, FirstIdx(s, b, FALSE))
    IN IF a > Len(s) THEN [count |-> -1, key |-> <<>>, value |-> 0]
       ELSE IF ~n.ok THEN [count |-> 1, key |-> SubSeq(s, a, b - 1), value |-> 0]
       ELSE [count |-> 2, key |-> SubSeq(s, a, b - 1), value |-> n.value]

\* lines 62-65: the strcmp chain that stores value in the field of key
StoreField(m, k, value) ==
    IF k = <<"V", "m", "S", "i", "z", "e", ":">> THEN [m EXCEPT !.vm_size = value]
    ELSE IF k = <<"V", "m", "R", "S", "S", ":">> THEN [m EXCEPT !.vm_rss = value]
    ELSE IF k = <<"V", "m", "D", "a", "t", "a", ":">> THEN [m EXCEPT !.vm_data = value]
    ELSE IF k = <<"V", "m", "S", "t", "k", ":">> THEN [m EXCEPT !.vm_stack = value]
    ELSE m

\* memory_info mem = {0}
ZeroMem == [vm_size |-> 0, vm_rss |-> 0, vm_data |-> 0, vm_stack |-> 0]

\* a slip in the sentinel test: "if (!pid)"
IsNotFound_Zero(p) == p = 0

\* main, line 87
IsNotFound(p) == p = NotFound

\* fclose()/closedir(): the most recently opened handle of that kind is released
RECURSIVE LastOf(_, _, _)
LastOf(h, kind, i) ==
    IF i = 0 THEN 0 ELSE IF h[i] = kind THEN i ELSE LastOf(h, kind, i - 1)
\* a slip in the skip path: the cmdline stream is never closed
Release_LeakCmdline(h, kind) ==
    IF kind = "cmdline" THEN h
    ELSE LET i == LastOf(h, kind, Len(h))
         IN IF i = 0 THEN h ELSE SubSeq(h, 1, i - 1) \o SubSeq(h, i + 1, Len(h))

Release(h, kind) ==
    LET i == LastOf(h, kind, Len(h))
    IN IF i = 0 THEN h ELSE SubSeq(h, 1, i - 1) \o SubSeq(h, i + 1, Len(h))

\* ------------------------------------------------------------ the inputs
\* bounds of the environment
MaxEntries == 3
LongTokenLen == 64
PadLen == 250

Rep(c, n) == [i \in 1..n |-> c]

\* directory entry names of /proc
N7 == <<"7">>
N42 == <<"4", "2">>
NSelf == <<"s", "e", "l", "f">>
Names == {N7, N42, NSelf}

\* cmdline records: argv joined by NUL
CmdNode == <<"n", "o", "d", "e", NUL, "s", NUL>>
CmdArgNode == <<"p", "y", NUL, "n", "o", "d", "e", NUL>>
CmdUpper == <<"N", "o", "d", "e", NUL>>
CmdZombie == <<>>
CmdLines == {CmdNode, CmdArgNode, CmdUpper, CmdZombie}

\* status records
kVmSize == <<"V", "m", "S", "i", "z", "e", ":">>
kVmRSS == <<"V", "m", "R", "S", "S", ":">>
kVmData == <<"V", "m", "D", "a", "t", "a", ":">>
kVmStk == <<"V", "m", "S", "t", "k", ":">>
StLine(k, v) == k \o <<"\t", " ">> \o v \o <<" ", "k", "B", "\n">>
NameLine == <<"N", "a", "m", "e", ":", "\t", "n", "o", "d", "e", "\n">>

RecFull == NameLine \o StLine(kVmSize, <<"5", "0">>) \o StLine(kVmRSS, <<"2", "0">>)
           \o StLine(kVmData, <<"1", "0">>) \o StLine(kVmStk, <<"3">>)
RecNoSize == StLine(kVmRSS, <<"2", "0">>)
RecEmpty == <<>>
RecDup == StLine(kVmSize, <<"5">>) \o StLine(kVmSize, <<"7">>)
RecNoColon == StLine(<<"V", "m", "S", "i", "z", "e">>, <<"5">>)
RecNoSuffix == kVmSize \o <<" ", "7", "\n">>
RecNonNum == StLine(kVmSize, <<"a", "b">>)
RecNeg == StLine(kVmRSS, <<"-", "5">>) \o StLine(kVmSize, <<"4">>)
RecLongTok == NameLine \o StLine(kVmSize, <<"4">>) \o StLine(Rep("x", LongTokenLen), <<"1">>)
RecLongLine == kVmSize \o Rep(" ", PadLen) \o <<"7", " ", "k", "B", "\n">>
StatusRecords == {RecFull, RecNoSize, RecEmpty, RecDup, RecNoColon, RecNoSuffix,
                  RecNonNum, RecNeg, RecLongTok, RecLongLine}

\* values a read of released memory may produce
DanglingValues == {NotFound, 0, 9}
\* values a field overwritten through the key buffer may take
ClobberValues == {0, 9}

Range(f) == {f[i] : i \in DOMAIN f}
Listings == {l \in UNION {[1..n -> Names] : n \in 0..MaxEntries} :
                \A i, j \in DOMAIN l : i # j => l[i] # l[j]}

\* ------------------------------------------------------------- the state
VARIABLES
    pc,            \* position of the single thread
    listing,       \* the entries readdir will return, in enumeration order
    cmdlineOf,     \* name -> bytes of /proc/<name>/cmdline, or Unopenable
    proc_dir,      \* "null" | "open" | "closed"
    dpos,          \* number of entries readdir has returned
    entry,         \* entry->d_name of the current entry
    cmdline_file,  \* "null" | "open" | "closed"
    pid,           \* main's pid
    status_file,   \* [state, bytes, pos] of the status stream
    mem,           \* get_memory_usage's mem / main's mem
    key,           \* bytes the last sscanf wrote to key
    output,        \* what was printed, in order
    exit_status,   \* <<main's return value>>, <<>> while running and after a fault
    handles,       \* handles currently open, in opening order
    matched,       \* history: entries whose cmdline was read and matched
    locatorRuns,   \* history: calls of get_node_pid
    statusOpens    \* history: identifiers whose status record fopen was tried on

vars == <<pc, listing, cmdlineOf, proc_dir, dpos, entry, cmdline_file, pid,
          status_file, mem, key, output, exit_status, handles, matched,
          locatorRuns, statusOpens>>

NoStream == [state |-> "null", bytes |-> <<>>, pos |-> 1]

Init ==
    /\ pc = "main"
    /\ listing \in Listings
    /\ cmdlineOf \in [Names -> CmdLines \cup {Unopenable}]
    /\ proc_dir = "null"
    /\ dpos = 0
    /\ entry = NoEntry
    /\ cmdline_file = "null"
    /\ pid = NoPid
    /\ status_file = NoStream
    /\ mem = ZeroMem
    /\ key = <<>>
    /\ output = <<>>
    /\ exit_status = <<>>
    /\ handles = <<>>
    /\ matched = {}
    /\ locatorRuns = 0
    /\ statusOpens = <<>>

\* ------------------------------------------------------- get_node_pid
\* line 15 (call from main, line 85) and lines 22-23
GetNodePid_Opendir ==
    /\ pc = "main"
    /\ locatorRuns' = locatorRuns + 1
    /\ \/ /\ proc_dir' = "open"
          /\ handles' = Append(handles, "dir")
          /\ pc' = "readdir"
          /\ pid' = pid
       \/ /\ pid' = NotFound
          /\ pc' = "main_pid_check"
          /\ UNCHANGED <<proc_dir, handles>>
    /\ UNCHANGED <<listing, cmdlineOf, dpos, entry, cmdline_file, status_file,
                   mem, key, output, exit_status, matched, statusOpens>>

\* lines 25-26 and, at the end of the listing, lines 43-44
GetNodePid_Readdir ==
    /\ pc = "readdir"
    /\ IF dpos < Len(listing)
       THEN /\ entry' = listing[dpos + 1]
            /\ dpos' = dpos + 1
            /\ pc' = IF IsNumericName(listing[dpos + 1]) THEN "fopen_cmdline" ELSE "readdir"
            /\ UNCHANGED <<proc_dir, handles, pid>>
       ELSE /\ entry' = NoEntry
            /\ proc_dir' = "closed"
            /\ handles' = Release(handles, "dir")
            /\ pid' = NotFound
            /\ pc' = "main_pid_check"
            /\ dpos' = dpos
    /\ UNCHANGED <<listing, cmdlineOf, cmdline_file, status_file, mem, key,
                   output, exit_status, matched, locatorRuns, statusOpens>>

\* lines 27-30
GetNodePid_Fopen ==
    /\ pc = "fopen_cmdline"
    /\ IF cmdlineOf[entry] = Unopenable
       THEN /\ cmdline_file' = "null"
            /\ pc' = "readdir"
            /\ handles' = handles
       ELSE /\ cmdline_file' = "open"
            /\ handles' = Append(handles, "cmdline")
            /\ pc' = "fgets_cmdline"
    /\ UNCHANGED <<listing, cmdlineOf, proc_dir, dpos, entry, pid, status_file,
                   mem, key, output, exit_status, matched, locatorRuns, statusOpens>>

\* lines 31-39.  A record whose process has gone since fopen reads as empty,
\* and fgets returns NULL at once.  On a match the stream and the directory are closed and then
\* entry->d_name is read (line 35): entry points into the directory stream
\* closedir has just released, so the read yields the name, other bytes, or
\* a fault.
GetNodePid_Fgets ==
    /\ pc = "fgets_cmdline"
    /\ LET bytes == IF cmdlineOf[entry] = Unopenable THEN <<>> ELSE cmdlineOf[entry]
           r == Fgets(bytes, 1, CMDLINE_SIZE)
       IN IF r.ok /\ Strstr(r.chunk, Needle)
          THEN /\ matched' = matched \cup {entry}
               /\ cmdline_file' = "closed"
               /\ proc_dir' = "closed"
               /\ handles' = Release(Release(handles, "cmdline"), "dir")
               /\ \/ /\ pid' \in {Atoi(entry)} \cup DanglingValues
                     /\ pc' = "main_pid_check"
                     /\ exit_status' = exit_status
                  \/ /\ pc' = "crashed"
                     /\ exit_status' = exit_status
                     /\ pid' = pid
          ELSE /\ cmdline_file' = "closed"
               /\ handles' = Release(handles, "cmdline")
               /\ pc' = "readdir"
               /\ UNCHANGED <<matched, proc_dir, pid, exit_status>>
    /\ UNCHANGED <<listing, cmdlineOf, dpos, entry, status_file, mem, key,
                   output, locatorRuns, statusOpens>>

\* ------------------------------------------------------------------ main
\* lines 87-92
Main_CheckPid ==
    /\ pc = "main_pid_check"
    /\ IF IsNotFound(pid)
       THEN /\ output' = Append(output, "notfound")
            /\ exit_status' = <<1>>
            /\ pc' = "exited"
       ELSE /\ output' = Append(output, "found")
            /\ exit_status' = exit_status
            /\ pc' = "fopen_status"
    /\ UNCHANGED <<listing, cmdlineOf, proc_dir, dpos, entry, cmdline_file, pid,
                   status_file, mem, key, handles, matched, locatorRuns, statusOpens>>

\* lines 96-103
Main_CheckMem ==
    /\ pc = "main_mem_check"
    /\ IF mem.vm_size = 0
       THEN /\ output' = Append(output, "failed")
            /\ exit_status' = <<1>>
       ELSE /\ output' = Append(output, "display")
            /\ exit_status' = <<0>>
    /\ pc' = "exited"
    /\ UNCHANGED <<listing, cmdlineOf, proc_dir, dpos, entry, cmdline_file, pid,
                   status_file, mem, key, handles, matched, locatorRuns, statusOpens>>

\* --------------------------------------------------- get_memory_usage
\* lines 47-58; the record's content is whatever the system holds for pid
GetMemoryUsage_Fopen ==
    /\ pc = "fopen_status"
    /\ mem' = ZeroMem
    /\ statusOpens' = Append(statusOpens, pid)
    /\ \E rec \in StatusRecords \cup {Unopenable} :
          IF rec = Unopenable
          THEN /\ pc' = "main_mem_check"
               /\ UNCHANGED <<status_file, handles>>
          ELSE /\ status_file' = [state |-> "open", bytes |-> rec, pos |-> 1]
               /\ handles' = Append(handles, "status")
               /\ pc' = "fgets_status"
    /\ UNCHANGED <<listing, cmdlineOf, proc_dir, dpos, entry, cmdline_file, pid,
                   key, output, exit_status, matched, locatorRuns>>

\* lines 60-70: one iteration of the loop, or its exit.  %s has no width:
\* a token of KEY_SIZE bytes or more is written past key[63], after which
\* the function may go on as if nothing happened, go on with its fields
\* overwritten, or fault.
GetMemoryUsage_Fgets ==
    /\ pc = "fgets_status"
    /\ LET r == Fgets(status_file.bytes, status_file.pos, LINE_SIZE)
           sc == Sscanf(r.chunk)
           stored == IF sc.count = 2 THEN StoreField(mem, sc.key, sc.value) ELSE mem
       IN IF ~r.ok
          THEN /\ status_file' = [status_file EXCEPT !.state = "closed"]
               /\ handles' = Release(handles, "status")
               /\ pc' = "main_mem_check"
               /\ UNCHANGED <<mem, key, exit_status>>
          ELSE /\ status_file' = [status_file EXCEPT !.pos = r.next]
               /\ key' = IF sc.count >= 1 THEN sc.key ELSE key
               /\ handles' = handles
               /\ IF Len(sc.key) < KEY_SIZE
                  THEN /\ mem' = stored
                       /\ pc' = pc
                       /\ exit_status' = exit_status
                  ELSE \/ /\ mem' = stored
                          /\ pc' = pc
                          /\ exit_status' = exit_status
                       \/ /\ \E g \in ClobberValues :
                                mem' = [vm_size |-> g, vm_rss |-> g, vm_data |-> g, vm_stack |-> g]
                          /\ pc' = pc
                          /\ exit_status' = exit_status
                       \/ /\ pc' = "crashed"
                          /\ exit_status' = exit_status
                          /\ mem' = mem
    /\ UNCHANGED <<listing, cmdlineOf, proc_dir, dpos, entry, cmdline_file, pid,
                   output, matched, locatorRuns, statusOpens>>

\* ------------------------------------------------------- the environment
Scanning == pc \in {"readdir", "fopen_cmdline", "fgets_cmdline"}

\* a process exits (or its record becomes inaccessible) during the scan
ProcExit ==
    /\ Scanning
    /\ \E n \in Names :
          /\ IsNumericName(n)
          /\ cmdlineOf[n] # Unopenable
          /\ cmdlineOf' = [cmdlineOf EXCEPT ![n] = Unopenable]
    /\ UNCHANGED <<pc, listing, proc_dir, dpos, entry, cmdline_file, pid,
                   status_file, mem, key, output, exit_status, handles, matched,
                   locatorRuns, statusOpens>>

\* a process appears during the scan and readdir will still return it
ProcAppear ==
    /\ Scanning
    /\ Len(listing) < MaxEntries
    /\ \E n \in Names, c \in CmdLines :
          /\ IsNumericName(n)
          /\ n \notin Range(listing)
          /\ listing' = Append(listing, n)
          /\ cmdlineOf' = [cmdlineOf EXCEPT ![n] = c]
    /\ UNCHANGED <<pc, proc_dir, dpos, entry, cmdline_file, pid,
                   status_file, mem, key, output, exit_status, handles, matched,
                   locatorRuns, statusOpens>>

Program ==
    \/ GetNodePid_Opendir
    \/ GetNodePid_Readdir
    \/ GetNodePid_Fopen
    \/ GetNodePid_Fgets
    \/ Main_CheckPid
    \/ GetMemoryUsage_Fopen
    \/ GetMemoryUsage_Fgets
    \/ Main_CheckMem

Next == Program \/ ProcExit \/ ProcAppear

\* the program against a process table that changes while it is scanned
Spec == Init /\ [][Next]_vars

\* the program against a process table that stays as it was at the start
SpecStatic == Init /\ [][Program]_vars

TypeOK ==
    /\ pc \in {"main", "readdir", "fopen_cmdline", "fgets_cmdline", "main_pid_check",
               "fopen_status", "fgets_status", "main_mem_check", "exited", "crashed"}
    /\ dpos \in 0..Len(listing)
    /\ exit_status \in {<<>>, <<0>>, <<1>>}

\* ============================================================ properties
\* what the specification's sentences speak of, stated over the model

\* the command-line text contains the needle as a literal substring
TextContains(bytes, needle) ==
    \E i \in 1..(Len(bytes) - Len(needle) + 1) :
        SubSeq(bytes, i, i + Len(needle) - 1) = needle

\* positions of the numeric entries whose command-line text contains "node"
MatchingAt(l, tbl) ==
    {i \in 1..Len(l) : /\ IsNumericName(l[i])
                       /\ tbl[l[i]] # Unopenable
                       /\ TextContains(tbl[l[i]], Needle)}

FirstMatch(l, tbl) ==
    LET S == MatchingAt(l, tbl)
    IN IF S = {} THEN NotFound
       ELSE Atoi(l[CHOOSE i \in S : \A j \in S : i <= j])

\* get_node_pid has returned to main and the listing could be opened
LocatorReturnedFromScan == pc = "main_pid_check" /\ proc_dir # "null"

\* a line has exactly the shape <token> <integer> kB
ShapeOK(line) ==
    LET a == FirstIdx(line, 1, FALSE)
        b == FirstIdx(line, a, TRUE)
        n == ParseLong(line, FirstIdx(line, b, FALSE))
        d == FirstIdx(line, n.next, FALSE)
    IN /\ a <= Len(line)
       /\ n.ok
       /\ d > n.next
       /\ d + 1 <= Len(line)
       /\ SubSeq(line, d, d + 1) = <<"k", "B">>
       /\ FirstIdx(line, d + 2, FALSE) > Len(line)

TokenOf(line) ==
    LET a == FirstIdx(line, 1, FALSE)
    IN SubSeq(line, a, FirstIdx(line, a, TRUE) - 1)

NumberOf(line) ==
    LET a == FirstIdx(line, 1, FALSE)
        b == FirstIdx(line, a, TRUE)
    IN ParseLong(line, FirstIdx(line, b, FALSE)).value

RecognizedKeys == {kVmSize, kVmRSS, kVmData, kVmStk}

RECURSIVE LinesOf(_, _)
\* the lines of a record, from byte position pos
LinesOf(bytes, pos) ==
    IF pos > Len(bytes) THEN <<>>
    ELSE LET e == FirstFrom(bytes, pos, {"\n"}, TRUE)
         IN <<SubSeq(bytes, pos, IF e > Len(bytes) THEN Len(bytes) ELSE e)>>
            \o LinesOf(bytes, e + 1)

\* the value of the last recognized line of the record with key k, else 0
LastValue(bytes, k) ==
    LET ls == LinesOf(bytes, 1)
        S == {i \in 1..Len(ls) : ShapeOK(ls[i]) /\ TokenOf(ls[i]) = k}
    IN IF S = {} THEN 0
       ELSE NumberOf(ls[CHOOSE i \in S : \A j \in S : j <= i])

ExpectedMem(bytes) ==
    [vm_size |-> LastValue(bytes, kVmSize), vm_rss |-> LastValue(bytes, kVmRSS),
     vm_data |-> LastValue(bytes, kVmData), vm_stack |-> LastValue(bytes, kVmStk)]

Diagnostics == {i \in 1..Len(output) : output[i] \in {"notfound", "failed"}}
Displayed == \E i \in 1..Len(output) : output[i] = "display"

\* C1: when get_node_pid returns from a scan, its result is the identifier of
\* the first numeric entry, in enumeration order, whose command-line text
\* contains "node", and NotFound exactly when there is no such entry.
C1_FirstMatchReturned ==
    LocatorReturnedFromScan => pid = FirstMatch(listing, cmdlineOf)

\* C2: a line read from the status record that does not have the shape
\* <token> <integer> kB with a recognized key leaves all four fields as they
\* were and raises no error.
C2_MalformedLineIgnored ==
    [][(/\ pc = "fgets_status"
        /\ Fgets(status_file.bytes, status_file.pos, LINE_SIZE).ok
        /\ LET line == Fgets(status_file.bytes, status_file.pos, LINE_SIZE).chunk
           IN ~(ShapeOK(line) /\ TokenOf(line) \in RecognizedKeys))
       => (mem' = mem /\ pc' # "crashed")]_vars

\* C3: the MemoryInfo get_memory_usage returns has each field equal to the
\* value of the last recognized line with exactly that field's key, and 0
\* when there is none or the record cannot be opened.
C3_LastRecognizedLineWins ==
    (pc = "main_mem_check")
        => mem = IF status_file.state = "null" THEN ZeroMem
                 ELSE ExpectedMem(status_file.bytes)

\* C4: a run ends with exit status 0 and the metrics displayed exactly when
\* the locator returned an identifier and virtualSize is not 0; every other
\* run prints one diagnostic, displays nothing and ends with exit status 1.
C4_ExitStatus ==
    (pc \in {"exited", "crashed"})
        => IF pc = "exited" /\ pid # NotFound /\ mem.vm_size # 0
           THEN exit_status = <<0>> /\ Displayed /\ Diagnostics = {}
           ELSE exit_status = <<1>> /\ ~Displayed /\ Cardinality(Diagnostics) = 1

\* C5: when exactly one process of the listing has a command line that
\* contains "node", get_node_pid returns that process's identifier.
C5_SingleMatchReturned ==
    (LocatorReturnedFromScan /\ Cardinality(MatchingAt(listing, cmdlineOf)) = 1)
        => pid = Atoi(listing[CHOOSE i \in MatchingAt(listing, cmdlineOf) : TRUE])

\* C6: whatever processes exit or appear during the scan, the scan never
\* faults and returns NotFound or the identifier of an entry whose command
\* line was read and matched.
C6_ScanNeverFaults ==
    /\ ~(pc = "crashed" /\ statusOpens = <<>>)
    /\ (pc = "main_pid_check")
          => (pid = NotFound \/ \E n \in matched : pid = Atoi(n))

\* C7: the locator runs exactly once; a status record is opened at most
\* once, only after the locator returned an identifier and only for that
\* identifier; a run in which the locator returns NotFound exits 1 with the
\* "not found" diagnostic and no status-record read.
C7_LocateOnceReadOnce ==
    /\ locatorRuns <= 1
    /\ (pc # "main") => locatorRuns = 1
    /\ Len(statusOpens) <= 1
    /\ (statusOpens # <<>>)
          => /\ pc \in {"fgets_status", "main_mem_check", "exited", "crashed"}
             /\ pid # NotFound
             /\ statusOpens = <<pid>>
    /\ (pc = "exited" /\ pid = NotFound)
          => /\ exit_status = <<1>>
             /\ output = <<"notfound">>
             /\ statusOpens = <<>>

C7_Witness ==
    /\ pc = "exited"
    /\ pid = NotFound
    /\ listing = <<>>
    /\ locatorRuns = 1
    /\ statusOpens = <<>>

C9_FieldsNonNegative ==
    /\ mem.vm_size >= 0
    /\ mem.vm_rss >= 0
    /\ mem.vm_data >= 0
    /\ mem.vm_stack >= 0

\* C10: the token sscanf copies into key is at most 63 characters long.
C10_KeyFitsBuffer == Len(key) <= KEY_SIZE - 1
====
